---- MODULE Spec2Model ----
(***************************************************************************)
(* Model of the crypto price pipeline: the getCryptoPrice tool             *)
(* (src/lib/tambo.ts), getCurrentCryptoInfo (services/crypto-data.ts), the *)
(* two proxy route handlers (api/crypto/route.ts and                       *)
(* api/crypto/listings/route.ts) and the CryptoCard component.             *)
(*                                                                         *)
(* JavaScript values are tagged records: [t |-> "undefined"],              *)
(* [t |-> "null"], [t |-> "number", v |-> n], [t |-> "string", v |-> s],   *)
(* [t |-> "object", v |-> f].  A string s is a sequence of non-empty text   *)
(* chunks whose concatenation is the string (one chunk per character for   *)
(* symbols), so <<>> is the empty string.  An object's f is a function     *)
(* whose DOMAIN is the set of its keys.  An error message is the chunk     *)
(* sequence of its text.  A number is a decimal v * 10^e (mantissa v,       *)
(* exponent e), so that magnitudes from 1e-9 to 1e15 fit machine integers; *)
(* NaN is a value of its own.                                              *)
(***************************************************************************)
EXTENDS Integers, Sequences, FiniteSets, TLC

VARIABLES
  apiKey,          \* process.env.NEXT_PUBLIC_COINMARKETCAP_API_KEY
  toolPc,          \* getCryptoPrice: "idle", "awaiting" (the fetch), "done"
  toolArg,         \* args.symbol of the invocation
  cryptoInfo,      \* how getCurrentCryptoInfo settled
  toolOut,         \* how the tool's promise settled
  toolFetches,     \* fetches of the quote proxy issued by the invocation
  proxyReq,        \* request in flight to a proxy endpoint
  request,         \* the request the handler is serving or has served
  handler,         \* "quote" or "listings" while awaiting the provider
  upstreamReq,     \* the outbound request to the provider
  upstreamResp,    \* the provider's answer
  upstreamFetches, \* outbound requests made for the request served
  proxyResp,       \* the handler's response
  cardProps,       \* the props CryptoCard was rendered with
  view             \* what CryptoCard rendered

vars == <<apiKey, toolPc, toolArg, cryptoInfo, toolOut, toolFetches, proxyReq,
          request, handler, upstreamReq, upstreamResp, upstreamFetches,
          proxyResp, cardProps, view>>

----------------------------------------------------------------------------
(* Bounds *)

\* longest symbol text a caller passes
MaxSymLen == 2

----------------------------------------------------------------------------
(* JavaScript values *)

Undefined == [t |-> "undefined"]
Null == [t |-> "null"]
\* the number m * 10^e
Dec(m, e) == [t |-> "number", v |-> m, e |-> e]
\* the integer n
Num(n) == Dec(n, 0)
NaN == [t |-> "nan"]
Str(s) == [t |-> "string", v |-> s]
Obj(f) == [t |-> "object", v |-> f]
\* no value at all: nothing in flight, nothing returned yet
None == [t |-> "none"]
\* a response body that is not JSON text
NotJson == [t |-> "text"]

IsString(x) == x.t = "string"

\* JavaScript ToBoolean, as used by `!x`, `x || y` and `if (x)`
Truthy(x) ==
  CASE x.t = "undefined" -> FALSE
    [] x.t = "null" -> FALSE
    [] x.t = "nan" -> FALSE
    [] x.t = "number" -> x.v # 0
    [] x.t = "string" -> x.v # <<>>
    [] OTHER -> TRUE

\* a || b
Or(a, b) == IF Truthy(a) THEN a ELSE b

\* a || b in the place of a ?? b
Coalesce_Falsy(a, b) == IF Truthy(a) THEN a ELSE b

\* a ?? b
Coalesce(a, b) == IF a.t \in {"undefined", "null"} THEN b ELSE a

\* obj[k] of an object
Get(obj, k) == IF k \in DOMAIN obj.v THEN obj.v[k] ELSE Undefined

\* the object with the fields of record f that are not None
ObjOf(f) == Obj([k \in {j \in DOMAIN f : f[j] # None} |-> f[k]])

----------------------------------------------------------------------------
(* Numbers *)

\* 10^n for the n that occur; mantissas stay below 10^9
RECURSIVE Pow10(_)
Pow10(n) == IF n = 0 THEN 1 ELSE 10 * Pow10(n - 1)

Abs(n) == IF n < 0 THEN -n ELSE n

\* x >= 10^k, for a number x
AtLeastPow10(x, k) ==
  IF x.t # "number" THEN FALSE
  ELSE IF x.v <= 0 THEN FALSE
  ELSE IF x.e >= k THEN TRUE
  ELSE IF k - x.e > 9 THEN FALSE
  ELSE x.v >= Pow10(k - x.e)

\* x > 1, for a number x
GreaterThanOne(x) ==
  IF x.v <= 0 THEN FALSE
  ELSE IF x.e >= 0 THEN x.v > 1 \/ x.e > 0
  ELSE IF -x.e > 9 THEN FALSE
  ELSE x.v > Pow10(-x.e)

\* x / 10^k
DivPow10(x, k) == Dec(x.v, x.e - k)

\* |x| in units of 10^-d, rounded to the nearest unit, halves away from
\* zero (Number.prototype.toFixed and Intl's default rounding)
RoundedUnits(x, d) ==
  LET m == Abs(x.v)
      shift == x.e + d
  IN IF shift >= 0 THEN m * Pow10(shift)
     ELSE IF -shift > 9 THEN 0
     ELSE LET p == Pow10(-shift)
          IN (m \div p) + (IF 2 * (m % p) >= p THEN 1 ELSE 0)

\* the decimal digit n as text
Digit(n) == ToString(n)

\* the d digits of n, zero-padded, one chunk per digit
RECURSIVE Digits(_, _)
Digits(n, d) ==
  IF d = 0 THEN <<>> ELSE Append(Digits(n \div 10, d - 1), Digit(n % 10))

\* x.toFixed(2)
ToFixed2(x) ==
  IF x = NaN THEN <<"NaN">>
  ELSE LET h == RoundedUnits(x, 2)
       IN (IF x.v < 0 THEN <<"-">> ELSE <<>>)
          \o <<ToString(h \div 100), ".">> \o Digits(h % 100, 2)

----------------------------------------------------------------------------
(* Strings *)

Alphabet == {"b", "B", "&"}

RECURSIVE StringsUpTo(_)
StringsUpTo(n) ==
  IF n = 0 THEN {<<>>}
  ELSE LET shorter == StringsUpTo(n - 1)
       IN shorter \cup {Append(s, c) : s \in shorter, c \in Alphabet}

UpperChar(c) == IF c = "b" THEN "B" ELSE c

\* String.prototype.toUpperCase
ToUpperCase(s) == [i \in 1..Len(s) |-> UpperChar(s[i])]

\* encodeURIComponent: "&" is escaped, letters are kept
RECURSIVE EncodeURIComponent(_)
EncodeURIComponent(s) ==
  IF s = <<>> THEN <<>>
  ELSE (IF Head(s) = "&" THEN <<"%", "2", "6">> ELSE <<Head(s)>>)
       \o EncodeURIComponent(Tail(s))

\* percent-decoding of one query value
RECURSIVE PercentDecode(_)
PercentDecode(s) ==
  IF s = <<>> THEN <<>>
  ELSE IF Len(s) >= 3 /\ SubSeq(s, 1, 3) = <<"%", "2", "6">>
       THEN <<"&">> \o PercentDecode(SubSeq(s, 4, Len(s)))
       ELSE <<Head(s)>> \o PercentDecode(Tail(s))

\* the text of a query value up to the next "&" separator
RECURSIVE UpToSeparator(_)
UpToSeparator(s) ==
  IF s = <<>> \/ Head(s) = "&" THEN <<>>
  ELSE <<Head(s)>> \o UpToSeparator(Tail(s))

\* searchParams.get('symbol') on a request whose query is
\* `symbol=<raw>` (query = Str(raw)) or has no symbol parameter (Null)
SearchParamsGet(query) ==
  IF query.t = "null" THEN Null
  ELSE Str(PercentDecode(UpToSeparator(query.v)))

----------------------------------------------------------------------------
(* Remote price provider (external): the responses it can give *)

\* a key the provider may use that no caller asks for
OtherKey == <<"X">>

ProviderErrorBody(status) ==
  Obj([status |-> Obj([error_code |-> Num(status),
                       error_message |-> Str(<<"provider error">>)])])

USDQuotes ==
  { ObjOf([price |-> p, price_change_24h |-> d, percent_change_24h |-> c,
           market_cap |-> m, volume_24h |-> v]) :
      p \in {None, Null, Num(0), Num(2)},
      c \in {None, Num(0), Num(-1)},
      d \in {None, Num(5)}, m \in {None, Num(7)}, v \in {Num(9)} }

FullQuote ==
  Obj([price |-> Num(2), price_change_24h |-> Num(5),
       percent_change_24h |-> Num(-1), market_cap |-> Num(7),
       volume_24h |-> Num(9)])

\* the entries the provider may file under key k
Entries(k) ==
  { ObjOf([symbol |-> Str(k), name |-> Str(<<"Coin">>),
           quote |-> Obj([USD |-> q])]) : q \in USDQuotes }
  \cup { ObjOf([symbol |-> s, name |-> n, quote |-> Obj([USD |-> FullQuote])]) :
            s \in {None, Str(k)}, n \in {None, Str(<<"Coin">>)} }
  \cup { ObjOf([symbol |-> Str(k), name |-> Str(<<"Coin">>), quote |-> q]) :
            q \in {None, Obj(<<>>)} }
  \cup { Null }

ProviderStatus == Obj([error_code |-> Num(0)])

\* JSON bodies of a successful quotes/latest answer to a request for sym
QuoteBodies(sym) ==
  LET keys == {sym, UpToSeparator(sym), OtherKey}
      maps == {Obj(<<>>)} \cup UNION {{Obj(k :> e) : e \in Entries(k)} : k \in keys}
  IN { ObjOf([status |-> ProviderStatus, error |-> err, data |-> d]) :
         err \in {None, Str(<<>>), Str(<<"quota exceeded">>)},
         d \in {None} \cup maps }

\* JSON bodies of a successful listings/latest answer
ListingBodies ==
  { ObjOf([status |-> ProviderStatus, data |-> d]) :
      d \in {None, Obj(<<>>),
             Obj(<<Obj([symbol |-> Str(<<"B">>), name |-> Str(<<"Coin">>),
                        quote |-> Obj([USD |-> FullQuote])])>>)} }

FailureStatuses == {429, 500}

NetworkError == [kind |-> "network_error"]
HttpResponse(status, body) == [kind |-> "response", status |-> status, body |-> body]

\* everything the provider may answer to request req
ProviderResponses(req) ==
  {NetworkError}
  \cup {HttpResponse(st, ProviderErrorBody(st)) : st \in FailureStatuses}
  \cup {HttpResponse(200, NotJson)}
  \cup {HttpResponse(200, b) :
          b \in IF req.endpoint = "quotes" THEN QuoteBodies(req.symbol)
                ELSE ListingBodies}

\* Response.ok
Ok(status) == status \in 200..299

----------------------------------------------------------------------------
(* Proxy endpoints *)

\* NextResponse.json(body, {status})
NextResponseJson(body, status) == [status |-> status, body |-> body]

ErrorBody(text) == Obj([error |-> Str(<<text>>)])

\* the parameter test that accepts an empty value
SymbolMissing_NullOnly(symbol) == symbol = Null

\* route.ts line 7: if (!symbol)
SymbolMissing(symbol) == ~Truthy(symbol)

\* the credential test that accepts an empty value
KeyMissing_UndefinedOnly(key) == key = Undefined

\* route.ts line 13 and listings line 183: if (!apiKey)
KeyMissing(key) == ~Truthy(key)

SymbolRequired == NextResponseJson(ErrorBody("Symbol parameter is required"), 400)

KeyNotConfigured == NextResponseJson(ErrorBody("API key not configured"), 500)

\* the catch block of the quote handler
QuoteFailure(up) ==
  NextResponseJson(ErrorBody("Failed to fetch cryptocurrency data"), 500)

\* a catch block that passes the upstream status on
ListingsFailure_RelayStatus(up) ==
  NextResponseJson(ErrorBody("Failed to fetch cryptocurrency listings"),
                   IF up.kind = "response" /\ ~Ok(up.status) THEN up.status ELSE 500)

\* the catch block of the listings handler
ListingsFailure(up) ==
  NextResponseJson(ErrorBody("Failed to fetch cryptocurrency listings"), 500)

\* a success path that forwards only the data field
RelaySuccess_DataOnly(data) ==
  NextResponseJson(
    ObjOf([data |-> IF "data" \in DOMAIN data.v THEN data.v.data ELSE None]), 200)

\* return NextResponse.json(data)
RelaySuccess(data) == NextResponseJson(data, 200)

\* does the try block throw on upstream answer up: fetch rejects, the
\* status is not ok, or response.json() fails
TryThrows(up) ==
  \/ up.kind = "network_error"
  \/ ~Ok(up.status)
  \/ up.body = NotJson

\* quote handler from the upstream answer to its response
QuoteGETResult(up) == IF TryThrows(up) THEN QuoteFailure(up) ELSE RelaySuccess(up.body)

\* listings handler from the upstream answer to its response
ListingsGETResult(up) ==
  IF TryThrows(up) THEN ListingsFailure(up) ELSE RelaySuccess(up.body)

\* the outbound request of the quote handler
QuoteUpstreamRequest(symbol, key) ==
  [endpoint |-> "quotes", symbol |-> ToUpperCase(symbol.v), key |-> key]

\* the outbound request of the listings handler
ListingsUpstreamRequest(key) ==
  [endpoint |-> "listings", symbol |-> <<>>, key |-> key]

----------------------------------------------------------------------------
(* getCurrentCryptoInfo (services/crypto-data.ts) *)

Thrown(message) == [ok |-> FALSE, message |-> message]
Returned(value) == [ok |-> TRUE, value |-> value]

\* `API error: ${response.status}`
ApiErrorMessage(status) == <<"API error: ", ToString(status)>>

\* the message with the symbol upper-cased
NotFoundMessage_Upper(symbol) ==
  <<"Cryptocurrency ">> \o ToUpperCase(symbol) \o <<" not found">>

\* `Cryptocurrency ${symbol} not found`
NotFoundMessage(symbol) == <<"Cryptocurrency ">> \o symbol \o <<" not found">>

\* message of the TypeError of a property read on undefined or null
TypeErrorMessage == <<"Cannot read properties of undefined">>

\* message of the TypeError of a fetch that rejects
FetchFailedMessage == <<"Failed to fetch">>

\* `/api/crypto?symbol=${encodeURIComponent(symbol)}`
ProxyRequestFor(symbol) ==
  [route |-> "quote", query |-> Str(EncodeURIComponent(symbol))]

\* the object literal with the absolute change read from the percentage
Normalize_WrongField(cryptoData, quote) ==
  Obj([symbol |-> Get(cryptoData, "symbol"),
       name |-> Get(cryptoData, "name"),
       current_price |-> Get(quote, "price"),
       price_change_24h |-> Get(quote, "percent_change_24h"),
       price_change_percentage_24h |-> Get(quote, "percent_change_24h"),
       market_cap |-> Get(quote, "market_cap"),
       volume_24h |-> Get(quote, "volume_24h")])

\* the returned object literal: seven fields read from the entry and its
\* USD quote
Normalize(cryptoData, quote) ==
  Obj([symbol |-> Get(cryptoData, "symbol"),
       name |-> Get(cryptoData, "name"),
       current_price |-> Get(quote, "price"),
       price_change_24h |-> Get(quote, "price_change_24h"),
       price_change_percentage_24h |-> Get(quote, "percent_change_24h"),
       market_cap |-> Get(quote, "market_cap"),
       volume_24h |-> Get(quote, "volume_24h")])

\* the lookup under the symbol as passed
LookupEntry_AsPassed(map, symbol) == Get(map, symbol)

\* data.data[symbol.toUpperCase()]
LookupEntry(map, symbol) == Get(map, ToUpperCase(symbol))

\* getCurrentCryptoInfo with the payload's error field read before the
\* status
GetCurrentCryptoInfo_PayloadFirst(symbol, resp) ==
  LET data == resp.body
      map == Get(data, "data")
      cryptoData == LookupEntry(map, symbol)
      quoteObj == Get(cryptoData, "quote")
      usd == Get(quoteObj, "USD")
  IN IF Truthy(Get(data, "error")) THEN Thrown(Get(data, "error").v)
     ELSE IF ~Ok(resp.status) THEN Thrown(ApiErrorMessage(resp.status))
     ELSE IF map.t # "object" THEN Thrown(TypeErrorMessage)
     ELSE IF ~Truthy(cryptoData) THEN Thrown(NotFoundMessage(symbol))
     ELSE IF quoteObj.t # "object" THEN Thrown(TypeErrorMessage)
     ELSE IF usd.t # "object" THEN Thrown(TypeErrorMessage)
     ELSE Returned(Normalize(cryptoData, usd))

\* getCurrentCryptoInfo(symbol) from the proxy's answer resp on; the catch
\* block logs and rethrows the same error
GetCurrentCryptoInfo(symbol, resp) ==
  LET data == resp.body
      map == Get(data, "data")
      cryptoData == LookupEntry(map, symbol)
      quoteObj == Get(cryptoData, "quote")
      usd == Get(quoteObj, "USD")
  IN IF ~Ok(resp.status) THEN Thrown(ApiErrorMessage(resp.status))
     ELSE IF Truthy(Get(data, "error")) THEN Thrown(Get(data, "error").v)
     ELSE IF map.t # "object" THEN Thrown(TypeErrorMessage)
     ELSE IF ~Truthy(cryptoData) THEN Thrown(NotFoundMessage(symbol))
     ELSE IF quoteObj.t # "object" THEN Thrown(TypeErrorMessage)
     ELSE IF usd.t # "object" THEN Thrown(TypeErrorMessage)
     ELSE Returned(Normalize(cryptoData, usd))

----------------------------------------------------------------------------
(* getCryptoPrice tool (lib/tambo.ts) *)

Resolved(value) == [kind |-> "resolved", value |-> value]
Rejected(message) == [kind |-> "rejected", message |-> message]

\* the validation without its emptiness test
InvalidSymbol_TypeOnly(symbol) == ~IsString(symbol)

\* tambo.ts line 41: if (!symbol || typeof symbol !== 'string')
InvalidSymbol(symbol) == ~Truthy(symbol) \/ ~IsString(symbol)

InvalidSymbolMessage == <<"Invalid symbol provided">>

\* the result object without the fallback of the name
ToolResult_NoFallback(symbol, info) ==
  Obj([symbol |-> Or(Get(info, "symbol"), Str(ToUpperCase(symbol))),
       name |-> Get(info, "name"),
       currentPrice |-> Or(Get(info, "current_price"), Num(0)),
       priceChange24h |-> Or(Get(info, "price_change_24h"), Num(0)),
       priceChangePercentage24h |->
         Or(Get(info, "price_change_percentage_24h"), Num(0)),
       marketCap |-> Or(Get(info, "market_cap"), Num(0)),
       volume24h |-> Or(Get(info, "volume_24h"), Num(0))])

\* the result object built from cryptoInfo
ToolResult(symbol, info) ==
  Obj([symbol |-> Or(Get(info, "symbol"), Str(ToUpperCase(symbol))),
       name |-> Or(Get(info, "name"), Str(ToUpperCase(symbol))),
       currentPrice |-> Or(Get(info, "current_price"), Num(0)),
       priceChange24h |-> Or(Get(info, "price_change_24h"), Num(0)),
       priceChangePercentage24h |->
         Or(Get(info, "price_change_percentage_24h"), Num(0)),
       marketCap |-> Or(Get(info, "market_cap"), Num(0)),
       volume24h |-> Or(Get(info, "volume_24h"), Num(0))])

\* a catch block that returns a placeholder instead of throwing
ToolCatch_Swallow(message) ==
  Resolved(Obj([symbol |-> Str(<<>>), name |-> Str(<<>>), currentPrice |-> Num(0),
                priceChange24h |-> Num(0), priceChangePercentage24h |-> Num(0),
                marketCap |-> Num(0), volume24h |-> Num(0)]))

\* the catch block: throw new Error(error.message)
ToolCatch(message) == Rejected(message)

\* the tool from the resolution of getCurrentCryptoInfo on
ToolFinish(symbol, info) ==
  IF info.ok THEN Resolved(ToolResult(symbol, info.value))
  ELSE ToolCatch(info.message)

----------------------------------------------------------------------------
(* CryptoCard (components/crypto/CryptoCard.tsx) *)

\* the comparison without the zero
IsPositive_Strict(priceChangePercentage) ==
  priceChangePercentage.t = "number" /\ priceChangePercentage.v > 0

\* line 83: const isPositive = priceChangePercentage >= 0
IsPositive(priceChangePercentage) ==
  priceChangePercentage.t = "number" /\ priceChangePercentage.v >= 0

\* the test without isNaN
NotANumber_NoNaN(num) == num = Undefined \/ num = Null

\* line 93: num === undefined || num === null || isNaN(num)
NotANumber(num) == num = Undefined \/ num = Null \/ num = NaN

\* formatLargeNumber without the threshold of a million
FormatLargeNumber_NoM(num) ==
  IF NotANumber(num) THEN <<"N/A">>
  ELSE IF AtLeastPow10(num, 12)
  THEN <<"$">> \o ToFixed2(DivPow10(num, 12)) \o <<"T">>
  ELSE IF AtLeastPow10(num, 9)
  THEN <<"$">> \o ToFixed2(DivPow10(num, 9)) \o <<"B">>
  ELSE IF AtLeastPow10(num, 3)
  THEN <<"$">> \o ToFixed2(DivPow10(num, 3)) \o <<"K">>
  ELSE <<"$">> \o ToFixed2(num)

\* formatLargeNumber without its first threshold
FormatLargeNumber_NoT(num) ==
  IF NotANumber(num) THEN <<"N/A">>
  ELSE IF AtLeastPow10(num, 9)
  THEN <<"$">> \o ToFixed2(DivPow10(num, 9)) \o <<"B">>
  ELSE IF AtLeastPow10(num, 6)
  THEN <<"$">> \o ToFixed2(DivPow10(num, 6)) \o <<"M">>
  ELSE IF AtLeastPow10(num, 3)
  THEN <<"$">> \o ToFixed2(DivPow10(num, 3)) \o <<"K">>
  ELSE <<"$">> \o ToFixed2(num)

\* formatLargeNumber, lines 92-101
FormatLargeNumber(num) ==
  IF NotANumber(num) THEN <<"N/A">>
  ELSE IF AtLeastPow10(num, 12)
  THEN <<"$">> \o ToFixed2(DivPow10(num, 12)) \o <<"T">>
  ELSE IF AtLeastPow10(num, 9)
  THEN <<"$">> \o ToFixed2(DivPow10(num, 9)) \o <<"B">>
  ELSE IF AtLeastPow10(num, 6)
  THEN <<"$">> \o ToFixed2(DivPow10(num, 6)) \o <<"M">>
  ELSE IF AtLeastPow10(num, 3)
  THEN <<"$">> \o ToFixed2(DivPow10(num, 3)) \o <<"K">>
  ELSE <<"$">> \o ToFixed2(num)

\* the two precisions divided at 10
MaxFractionDigits_AtTen(price) == IF AtLeastPow10(price, 1) THEN 2 ELSE 8

\* line 120: maximumFractionDigits: price > 1 ? 2 : 8
MaxFractionDigits(price) == IF GreaterThanOne(price) THEN 2 ELSE 8

\* line 119: minimumFractionDigits: 2
MinFractionDigits == 2

\* digits without the trailing zeros beyond the first min digits
RECURSIVE StripZeros(_, _)
StripZeros(digits, min) ==
  IF Len(digits) > min /\ digits[Len(digits)] = "0"
  THEN StripZeros(SubSeq(digits, 1, Len(digits) - 1), min)
  ELSE digits

\* the integer n with en-US thousands separators
RECURSIVE Grouped(_)
Grouped(n) ==
  IF n < 1000 THEN <<ToString(n)>>
  ELSE Grouped(n \div 1000) \o <<",">> \o Digits(n % 1000, 3)

\* x.toLocaleString('en-US', {minimumFractionDigits: min,
\* maximumFractionDigits: max})
ToLocaleString(x, min, max) ==
  LET u == RoundedUnits(x, max)
      p == Pow10(max)
  IN (IF x.v < 0 THEN <<"-">> ELSE <<>>)
     \o Grouped(u \div p) \o <<".">> \o StripZeros(Digits(u % p, max), min)

\* lines 118-121: the primary price
PriceText(price) ==
  <<"$">> \o ToLocaleString(price, MinFractionDigits, MaxFractionDigits(price))

\* lines 131-132: the absolute change
ChangeText(priceChange) ==
  (IF Truthy(priceChange) /\ priceChange.v > 0 THEN <<"+">> ELSE <<>>)
  \o <<"$">>
  \o (IF Truthy(priceChange)
      THEN ToFixed2(Dec(Abs(priceChange.v), priceChange.e))
      ELSE <<"N/A">>)

\* lines 135-136: the percentage change
PercentText(priceChangePercentage) ==
  <<"(">> \o (IF priceChangePercentage.v > 0 THEN <<"+">> ELSE <<>>)
  \o ToFixed2(priceChangePercentage) \o <<"%)">>

\* the guard without the name
MissingRequired_NoName(symbol, name, price, priceChangePercentage) ==
  \/ ~Truthy(symbol)
  \/ price = Undefined \/ priceChangePercentage = Undefined

\* line 69: !symbol || !name || price === undefined ||
\* priceChangePercentage === undefined
MissingRequired(symbol, name, price, priceChangePercentage) ==
  \/ ~Truthy(symbol) \/ ~Truthy(name)
  \/ price = Undefined \/ priceChangePercentage = Undefined

\* the component: the error state, the normal card, or a render that throws
\* because a method is called on null
CryptoCard(props) ==
  LET symbol == Get(props, "symbol")
      name == Get(props, "name")
      price == Coalesce(Get(props, "currentPrice"), Get(props, "current_price"))
      priceChange ==
        Coalesce(Get(props, "priceChange24h"), Get(props, "price_change_24h"))
      priceChangePercentage ==
        Coalesce(Get(props, "priceChangePercentage24h"),
                 Get(props, "price_change_percentage_24h"))
      marketCapValue == Coalesce(Get(props, "marketCap"), Get(props, "market_cap"))
      volumeValue == Coalesce(Get(props, "volume24h"), Get(props, "volume_24h"))
      isPositive == IsPositive(priceChangePercentage)
  IN IF MissingRequired(symbol, name, price, priceChangePercentage)
     THEN [kind |-> "error", symbol |-> symbol, name |-> name,
           price |-> price, change |-> priceChangePercentage]
     ELSE IF price = Null \/ priceChangePercentage = Null
     THEN [kind |-> "throws"]
     ELSE [kind |-> "normal", name |-> name,
           symbol |-> Str(ToUpperCase(symbol.v)),
           price |-> price,
           priceText |-> PriceText(price),
           isPositive |-> isPositive,
           changeColor |-> IF isPositive THEN "#22c55e" ELSE "#ef4444",
           bgGradient |-> IF isPositive THEN "from-green-50 to-emerald-50"
                          ELSE "from-red-50 to-rose-50",
           borderColor |-> IF isPositive THEN "border-green-200"
                           ELSE "border-red-200",
           arrow |-> IF isPositive THEN "up" ELSE "down",
           priceChange |-> priceChange,
           changeText |-> ChangeText(priceChange),
           priceChangePercentage |-> priceChangePercentage,
           percentText |-> PercentText(priceChangePercentage),
           marketCapValue |-> marketCapValue,
           marketCap |-> FormatLargeNumber(marketCapValue),
           volumeValue |-> volumeValue,
           volume |-> FormatLargeNumber(volumeValue)]

----------------------------------------------------------------------------
(* The state machine: one request or tool invocation at a time *)

EnvKeys == {Undefined, Str(<<>>), Str(<<"key">>)}

\* the symbol arguments the chat framework may pass to the tool
ToolArgs ==
  {Undefined, Null, Num(0), Num(42)} \cup {Str(s) : s \in StringsUpTo(MaxSymLen)}

\* the symbol query parameters a direct HTTP caller may send
Queries == {Null} \cup {Str(s) : s \in StringsUpTo(MaxSymLen)}

\* values of symbol and name
TextProps(text) == {None, Str(<<>>), Str(text)}

\* props that exercise the guard and the two namings of price and
\* percentage change
GuardProps ==
  { ObjOf([symbol |-> s, name |-> n, currentPrice |-> p1, current_price |-> p2,
           priceChangePercentage24h |-> c1, price_change_percentage_24h |-> c2]) :
      s \in TextProps(<<"b">>), n \in TextProps(<<"Coin">>),
      p1 \in {None, Null, Num(0), Num(2)}, p2 \in {None, Null, Num(3)},
      c1 \in {None, Num(0), Dec(-1, -2)}, c2 \in {None, Num(4)} }

\* props that exercise the two namings of the other three fields
NamingProps ==
  { ObjOf([symbol |-> Str(<<"b">>), name |-> Str(<<"Coin">>),
           currentPrice |-> Num(2), priceChangePercentage24h |-> Num(4),
           priceChange24h |-> d1, price_change_24h |-> d2,
           marketCap |-> m1, market_cap |-> m2,
           volume24h |-> v1, volume_24h |-> v2]) :
      d1 \in {None, Num(0), Num(5)}, d2 \in {None, Num(-6)},
      m1 \in {None, Null, Num(0), Num(7)}, m2 \in {None, Num(8)},
      v1 \in {None, Num(0), Num(9)}, v2 \in {None, Dec(1, 3)} }

\* magnitudes for formatLargeNumber
Magnitudes ==
  { Num(0), Dec(5, -1), Dec(1125, -3), Dec(99999, -2), Dec(999994, -3),
    Dec(999996, -3), Dec(1, 3), Num(1234), Num(1125), Num(999994),
    Num(999996), Num(999999), Dec(1, 6), Dec(15, 5), Num(999999999),
    Dec(1, 9), Dec(25, 8), Dec(9999999, 5), Dec(1, 12), Dec(23, 11),
    Dec(5, 15), Num(-5), Num(-1500), Dec(4, -3) }

\* prices for the primary price
Prices ==
  { Num(0), Num(1), Dec(5, -1), Dec(1234, -8), Dec(123456789, -9),
    Dec(101, -2), Dec(15, -1), Num(2), Dec(654321, -1), Dec(1234567, -3),
    Dec(-25, -1), Dec(100000001, -8), Dec(9, -1) }

\* percentage changes around the sign boundary
Percentages == {Num(0), Dec(-1, -2), Dec(1, -2), Num(5), Num(-3), Dec(-4, -3)}

\* props that exercise the formatting
FormatProps ==
  { ObjOf([symbol |-> Str(<<"b">>), name |-> Str(<<"Coin">>),
           currentPrice |-> p, priceChangePercentage24h |-> c,
           marketCap |-> m, volume_24h |-> Num(9)]) :
      p \in Prices, c \in Percentages,
      m \in Magnitudes \cup {None, Null, NaN} }

\* the props a caller may render CryptoCard with
CardProps == GuardProps \cup NamingProps \cup FormatProps

Idle ==
  /\ toolPc = "idle" /\ proxyReq = None /\ handler = "none"
  /\ upstreamReq = None /\ proxyResp = None /\ cardProps = None

Init ==
  /\ apiKey \in EnvKeys
  /\ toolPc = "idle" /\ toolArg = None /\ toolOut = None /\ toolFetches = 0
  /\ cryptoInfo = None /\ request = None
  /\ proxyReq = None /\ handler = "none"
  /\ upstreamReq = None /\ upstreamResp = None /\ upstreamFetches = 0
  /\ proxyResp = None /\ cardProps = None /\ view = None

\* the chat framework invokes getCryptoPrice({symbol}); runs to the await
\* of the fetch in getCurrentCryptoInfo, or to the rejection
ToolCall(symbol) ==
  /\ Idle
  /\ toolArg' = symbol
  /\ IF InvalidSymbol(symbol)
     THEN /\ toolPc' = "done"
          /\ toolOut' = ToolCatch(InvalidSymbolMessage)
          /\ UNCHANGED <<toolFetches, proxyReq>>
     ELSE /\ toolPc' = "awaiting"
          /\ proxyReq' = ProxyRequestFor(symbol.v)
          /\ toolFetches' = toolFetches + 1
          /\ UNCHANGED toolOut
  /\ UNCHANGED <<request, cryptoInfo, apiKey, handler, upstreamReq,
                 upstreamResp, upstreamFetches, proxyResp, cardProps, view>>

\* a caller other than the tool requests GET /api/crypto
HttpQuote(query) ==
  /\ Idle
  /\ proxyReq' = [route |-> "quote", query |-> query]
  /\ UNCHANGED <<request, cryptoInfo, apiKey, toolPc, toolArg, toolOut,
                 toolFetches, handler, upstreamReq, upstreamResp,
                 upstreamFetches, proxyResp, cardProps, view>>

\* a caller requests GET /api/crypto/listings
HttpListings ==
  /\ Idle
  /\ proxyReq' = [route |-> "listings", query |-> Null]
  /\ UNCHANGED <<request, cryptoInfo, apiKey, toolPc, toolArg, toolOut,
                 toolFetches, handler, upstreamReq, upstreamResp,
                 upstreamFetches, proxyResp, cardProps, view>>

\* quote handler up to its await of the upstream fetch, or to its return
QuoteGET ==
  /\ proxyReq # None /\ proxyReq.route = "quote"
  /\ proxyReq' = None
  /\ request' = proxyReq
  /\ LET symbol == SearchParamsGet(proxyReq.query)
     IN IF SymbolMissing(symbol)
        THEN /\ proxyResp' = SymbolRequired
             /\ UNCHANGED <<handler, upstreamReq, upstreamFetches>>
        ELSE IF KeyMissing(apiKey)
        THEN /\ proxyResp' = KeyNotConfigured
             /\ UNCHANGED <<handler, upstreamReq, upstreamFetches>>
        ELSE /\ handler' = "quote"
             /\ upstreamReq' = QuoteUpstreamRequest(symbol, apiKey)
             /\ upstreamFetches' = upstreamFetches + 1
             /\ UNCHANGED proxyResp
  /\ UNCHANGED <<cryptoInfo, apiKey, toolPc, toolArg, toolOut, toolFetches,
                 upstreamResp, cardProps, view>>

\* listings handler up to its await of the upstream fetch, or to its return
ListingsGET ==
  /\ proxyReq # None /\ proxyReq.route = "listings"
  /\ proxyReq' = None
  /\ request' = proxyReq
  /\ IF KeyMissing(apiKey)
     THEN /\ proxyResp' = KeyNotConfigured
          /\ UNCHANGED <<handler, upstreamReq, upstreamFetches>>
     ELSE /\ handler' = "listings"
          /\ upstreamReq' = ListingsUpstreamRequest(apiKey)
          /\ upstreamFetches' = upstreamFetches + 1
          /\ UNCHANGED proxyResp
  /\ UNCHANGED <<cryptoInfo, apiKey, toolPc, toolArg, toolOut, toolFetches,
                 upstreamResp, cardProps, view>>

\* the provider answers the outbound request, or the request fails
Provider ==
  /\ handler # "none" /\ upstreamResp = None
  /\ upstreamResp' \in ProviderResponses(upstreamReq)
  /\ UNCHANGED <<request, cryptoInfo, apiKey, toolPc, toolArg, toolOut,
                 toolFetches, proxyReq, handler, upstreamReq,
                 upstreamFetches, proxyResp, cardProps, view>>

\* quote handler from the end of its await to its return
QuoteGETFinish ==
  /\ handler = "quote" /\ upstreamResp # None
  /\ proxyResp' = QuoteGETResult(upstreamResp)
  /\ handler' = "none"
  /\ UNCHANGED <<request, cryptoInfo, apiKey, toolPc, toolArg, toolOut,
                 toolFetches, proxyReq, upstreamReq, upstreamResp,
                 upstreamFetches, cardProps, view>>

\* listings handler from the end of its await to its return
ListingsGETFinish ==
  /\ handler = "listings" /\ upstreamResp # None
  /\ proxyResp' = ListingsGETResult(upstreamResp)
  /\ handler' = "none"
  /\ UNCHANGED <<request, cryptoInfo, apiKey, toolPc, toolArg, toolOut,
                 toolFetches, proxyReq, upstreamReq, upstreamResp,
                 upstreamFetches, cardProps, view>>

\* the fetch of getCurrentCryptoInfo rejects: the proxy is unreachable
ToolFetchFails ==
  /\ toolPc = "awaiting" /\ proxyReq # None
  /\ proxyReq' = None
  /\ toolPc' = "done"
  /\ cryptoInfo' = Thrown(FetchFailedMessage)
  /\ toolOut' = ToolFinish(toolArg.v, cryptoInfo')
  /\ UNCHANGED <<request, apiKey, toolArg, toolFetches, handler, upstreamReq,
                 upstreamResp, upstreamFetches, proxyResp, cardProps, view>>

\* the proxy's answer arrives: getCurrentCryptoInfo and the tool run to
\* the tool's resolution or rejection
ToolResume ==
  /\ toolPc = "awaiting" /\ proxyResp # None
  /\ toolPc' = "done"
  /\ cryptoInfo' = GetCurrentCryptoInfo(toolArg.v, proxyResp)
  /\ toolOut' = ToolFinish(toolArg.v, cryptoInfo')
  /\ UNCHANGED <<request, apiKey, toolArg, toolFetches, proxyReq, handler,
                 upstreamReq, upstreamResp, upstreamFetches, proxyResp, cardProps, view>>

\* the chat framework renders the tool's result as a CryptoCard
Render ==
  /\ toolPc = "done" /\ toolOut.kind = "resolved" /\ view = None
  /\ cardProps' = toolOut.value
  /\ view' = CryptoCard(cardProps')
  /\ UNCHANGED <<request, cryptoInfo, apiKey, toolPc, toolArg, toolOut,
                 toolFetches, proxyReq, handler, upstreamReq, upstreamResp,
                 upstreamFetches, proxyResp>>

\* the chat framework, or any caller, renders a CryptoCard with props of
\* its own
RenderProps(props) ==
  /\ Idle
  /\ cardProps' = props
  /\ view' = CryptoCard(props)
  /\ UNCHANGED <<request, cryptoInfo, apiKey, toolPc, toolArg, toolOut,
                 toolFetches, proxyReq, handler, upstreamReq, upstreamResp,
                 upstreamFetches, proxyResp>>

\* the invocation, request or render is over; the next one starts afresh
Finished ==
  \/ toolPc = "done" /\ (toolOut.kind = "resolved" => view # None)
  \/ toolPc = "idle" /\ proxyResp # None
  \/ toolPc = "idle" /\ cardProps # None

Reset ==
  /\ Finished
  /\ toolPc' = "idle" /\ toolArg' = None /\ toolOut' = None /\ toolFetches' = 0
  /\ cryptoInfo' = None /\ request' = None
  /\ proxyReq' = None /\ handler' = "none"
  /\ upstreamReq' = None /\ upstreamResp' = None /\ upstreamFetches' = 0
  /\ proxyResp' = None /\ cardProps' = None /\ view' = None
  /\ UNCHANGED apiKey

Next ==
  \/ \E symbol \in ToolArgs : ToolCall(symbol)
  \/ \E query \in Queries : HttpQuote(query)
  \/ HttpListings
  \/ QuoteGET
  \/ ListingsGET
  \/ Provider
  \/ QuoteGETFinish
  \/ ListingsGETFinish
  \/ ToolFetchFails
  \/ ToolResume
  \/ Render
  \/ Idle /\ \E props \in CardProps : RenderProps(props)
  \/ Reset

Spec == Init /\ [][Next]_vars

----------------------------------------------------------------------------
(* Vocabulary of the properties *)

KeyAbsent == apiKey = Undefined \/ apiKey = Str(<<>>)

\* the symbol parameter of the request served, as the handler reads it
RequestSymbol == SearchParamsGet(request.query)

\* the request served carries a non-empty symbol parameter
SymbolGiven == RequestSymbol.t = "string" /\ RequestSymbol.v # <<>>

\* the provider answered and its answer is an HTTP failure
UpstreamFailed ==
  /\ upstreamResp # None /\ upstreamResp.kind = "response"
  /\ ~(upstreamResp.status \in 200..299)

\* the provider answered 2xx with a JSON body
UpstreamSucceeded ==
  /\ upstreamResp # None /\ upstreamResp.kind = "response"
  /\ upstreamResp.status \in 200..299
  /\ upstreamResp.body.t = "object"

ConfigurationError ==
  [status |-> 500, body |-> Obj([error |-> Str(<<"API key not configured">>)])]

\* the symbol argument is missing, empty or not a string
MalformedArg == toolArg.t # "string" \/ toolArg.v = <<>>

\* text occurs in message as a run of consecutive chunks
Contains(message, text) ==
  \E i \in 1..Len(message) :
    /\ i + Len(text) - 1 <= Len(message)
    /\ SubSeq(message, i, i + Len(text) - 1) = text

\* C1: with no credential in the environment, the quote handler called with
\* a symbol and the listings handler both answer 500 with the
\* configuration-error body, and no outbound request to the provider is made.
C1_NoCredentialNoCall ==
  KeyAbsent =>
    /\ upstreamFetches = 0 /\ upstreamReq = None /\ handler = "none"
    /\ (proxyResp # None /\ (request.route = "listings" \/ SymbolGiven))
         => proxyResp = ConfigurationError

C1_Witness ==
  /\ KeyAbsent /\ request # None /\ request.route = "quote" /\ SymbolGiven
  /\ proxyResp = ConfigurationError /\ upstreamFetches = 0

\* C2 as stated: on an upstream failure status both endpoints relay the
\* upstream status and error content verbatim.
C2_RelayVerbatim ==
  (proxyResp # None /\ UpstreamFailed) =>
    /\ proxyResp.status = upstreamResp.status
    /\ proxyResp.body = upstreamResp.body

\* C2 amended: on an upstream failure status both endpoints answer 500 with
\* their own fixed error body; the upstream status and error are not relayed.
C2_FixedFailure ==
  (proxyResp # None /\ UpstreamFailed) =>
    /\ proxyResp.status = 500
    /\ proxyResp.body =
         Obj([error |-> Str(<<IF request.route = "quote"
                              THEN "Failed to fetch cryptocurrency data"
                              ELSE "Failed to fetch cryptocurrency listings">>)])

C2_Witness ==
  /\ proxyResp # None /\ UpstreamFailed /\ upstreamResp.status = 429
  /\ request.route = "listings" /\ proxyResp.status = 500

\* C3 as stated: every invocation of getCryptoPrice triggers exactly one
\* call to the quote proxy, whatever the arguments.
C3_ExactlyOneCall == toolPc = "done" => toolFetches = 1

\* C3 amended: an invocation with a non-empty string symbol triggers exactly
\* one call to the quote proxy whatever the outcome; an invocation with a
\* missing, empty or non-string symbol triggers none.
C3_OneCallIfWellFormed ==
  /\ toolPc = "awaiting" => toolFetches = 1 /\ ~MalformedArg
  /\ toolPc = "done" => toolFetches = (IF MalformedArg THEN 0 ELSE 1)

C3_Witness ==
  /\ toolPc = "done" /\ ~MalformedArg /\ toolOut.kind = "rejected"
  /\ toolFetches = 1 /\ proxyResp # None

\* the payload the proxy returned to getCurrentCryptoInfo
Payload == proxyResp.body

\* the payload has a keyed-by-symbol map
HasMap == Get(Payload, "data").t = "object"

\* the entry of the map under the upper-cased requested symbol
SourceEntry == Get(Get(Payload, "data"), ToUpperCase(toolArg.v))

\* that entry has a USD quote
HasUSDQuote ==
  /\ SourceEntry.t = "object"
  /\ Get(SourceEntry, "quote").t = "object"
  /\ Get(Get(SourceEntry, "quote"), "USD").t = "object"

SourceQuote == Get(Get(SourceEntry, "quote"), "USD")

Absent(x) == x = Undefined \/ x = Null

\* getCurrentCryptoInfo has settled on a response of the proxy
InfoSettled == toolPc = "done" /\ cryptoInfo # None /\ proxyResp # None

\* getCurrentCryptoInfo has settled because its fetch rejected
FetchRejected == toolPc = "done" /\ cryptoInfo # None /\ proxyResp = None

\* C4: a quote whose price or 24h percentage change is absent in the
\* provider data is never turned into the value 0 and never rendered as a
\* normal card.
C4_AbsentNeverZero ==
  (InfoSettled /\ toolOut.kind = "resolved") =>
    /\ Absent(Get(SourceQuote, "price")) =>
         /\ Get(toolOut.value, "currentPrice") # Num(0)
         /\ view # None => view.kind # "normal"
    /\ Absent(Get(SourceQuote, "percent_change_24h")) =>
         /\ Get(toolOut.value, "priceChangePercentage24h") # Num(0)
         /\ view # None => view.kind # "normal"

\* the three failure cases of C5, read from the response
NonSuccessStatus == ~(proxyResp.status \in 200..299)
CarriesErrorField == "error" \in DOMAIN Payload.v
SymbolAbsent == ~HasMap \/ SourceEntry = Undefined

\* the returned snapshot has its seven fields copied from the entry and its
\* USD quote
SnapshotCopied ==
  /\ cryptoInfo.ok
  /\ DOMAIN cryptoInfo.value.v =
       {"symbol", "name", "current_price", "price_change_24h",
        "price_change_percentage_24h", "market_cap", "volume_24h"}
  /\ cryptoInfo.value.v.symbol = Get(SourceEntry, "symbol")
  /\ cryptoInfo.value.v.name = Get(SourceEntry, "name")
  /\ cryptoInfo.value.v.current_price = Get(SourceQuote, "price")
  /\ cryptoInfo.value.v.price_change_24h = Get(SourceQuote, "price_change_24h")
  /\ cryptoInfo.value.v.price_change_percentage_24h =
       Get(SourceQuote, "percent_change_24h")
  /\ cryptoInfo.value.v.market_cap = Get(SourceQuote, "market_cap")
  /\ cryptoInfo.value.v.volume_24h = Get(SourceQuote, "volume_24h")

Failed == ~cryptoInfo.ok /\ cryptoInfo.message # <<>>

\* C5 as stated: getCurrentCryptoInfo fails when the response is non-2xx,
\* when the payload carries an error field, or when the symbol is absent
\* from the map, and in every other case returns the copied snapshot.
C5_ThreeFailureCases ==
  InfoSettled =>
    IF NonSuccessStatus \/ CarriesErrorField \/ SymbolAbsent
    THEN Failed ELSE SnapshotCopied

\* C5 amended: it fails when the fetch rejects, when the response is
\* non-2xx, when the payload carries a non-empty error field, when the
\* payload has no map, when the map has no non-null entry under the
\* upper-cased symbol, or when that entry has no USD quote object; in every
\* other case it returns the copied snapshot.
C5_FailureCases ==
  /\ FetchRejected => Failed
  /\ InfoSettled =>
       IF \/ NonSuccessStatus
          \/ (CarriesErrorField /\ Payload.v.error # Str(<<>>))
          \/ SymbolAbsent \/ SourceEntry = Null
          \/ ~HasUSDQuote
       THEN Failed ELSE SnapshotCopied

C5_Witness ==
  /\ InfoSettled /\ ~NonSuccessStatus /\ ~CarriesErrorField /\ ~SymbolAbsent
  /\ SourceEntry # Null /\ ~HasUSDQuote /\ Failed

\* the response is a success whose map has no entry for the symbol
NotFoundCase ==
  /\ InfoSettled /\ ~NonSuccessStatus
  /\ ~(CarriesErrorField /\ Payload.v.error # Str(<<>>))
  /\ HasMap /\ SourceEntry = Undefined

\* C6: when the payload has no entry for the requested symbol,
\* getCurrentCryptoInfo fails with a message that contains the requested
\* symbol and the tool rejects with that same message.
C6_NotFoundNamesSymbol ==
  NotFoundCase =>
    /\ ~cryptoInfo.ok
    /\ Contains(cryptoInfo.message, toolArg.v)
    /\ toolOut.kind = "rejected" /\ toolOut.message = cryptoInfo.message

C6_Witness ==
  /\ NotFoundCase /\ toolArg = Str(<<"b", "&">>)
  /\ toolOut.kind = "rejected" /\ Contains(toolOut.message, <<"b", "&">>)

\* C7: a missing, empty or non-string symbol argument is rejected before
\* any network call: no request to the proxy or the provider occurs.
C7_MalformedRejectedBeforeCall ==
  (toolPc # "idle" /\ MalformedArg) =>
    /\ toolPc = "done" /\ toolOut.kind = "rejected"
    /\ toolFetches = 0 /\ proxyReq = None /\ request = None
    /\ upstreamFetches = 0 /\ upstreamReq = None

C7_Witness ==
  /\ toolPc = "done" /\ toolArg = Str(<<>>) /\ toolOut.kind = "rejected"
  /\ toolFetches = 0

\* one of the four failures of the tool path happened in this invocation
ToolPathFailure ==
  \/ MalformedArg
  \/ /\ proxyResp # None
     /\ \/ NonSuccessStatus
        \/ (CarriesErrorField /\ Payload.v.error # Str(<<>>))
        \/ (HasMap /\ SourceEntry = Undefined)

\* C8: every failure on the tool path ends the invocation in a rejection
\* with a non-empty message; a resolved invocation had no failure; no
\* failure triggers a second attempt.
C8_FailuresRejectWithMessage ==
  toolPc = "done" =>
    /\ ToolPathFailure => toolOut.kind = "rejected"
    /\ toolOut.kind = "rejected" =>
         /\ toolOut.message # <<>>
         /\ \A i \in 1..Len(toolOut.message) : toolOut.message[i] # ""
    /\ toolOut.kind = "resolved" =>
         (~MalformedArg /\ ~NonSuccessStatus /\ HasUSDQuote)
    /\ toolFetches <= 1 /\ upstreamFetches <= 1

C8_Witness ==
  /\ toolPc = "done" /\ proxyResp # None /\ ~NonSuccessStatus
  /\ CarriesErrorField
  /\ toolOut = [kind |-> "rejected", message |-> <<"quota exceeded">>]
  /\ toolFetches = 1

\* C9: the quote endpoint called without a symbol parameter (absent or
\* empty) answers 400 with an error body and makes no outbound request,
\* credential or not; with a symbol its only other failure status is 500.
C9_MissingSymbol400 ==
  (request # None /\ request.route = "quote") =>
    IF SymbolGiven
    THEN proxyResp # None => proxyResp.status \in {200, 500}
    ELSE /\ upstreamFetches = 0 /\ upstreamReq = None
         /\ proxyResp # None
         /\ proxyResp.status = 400
         /\ DOMAIN proxyResp.body.v = {"error"}
         /\ Truthy(proxyResp.body.v.error)

C9_Witness ==
  /\ ~KeyAbsent /\ request # None /\ request.route = "quote"
  /\ request.query = Str(<<>>) /\ proxyResp # None /\ proxyResp.status = 400

\* C10: with the credential present and a successful upstream call, each
\* endpoint returns the upstream JSON body unmodified.
C10_SuccessUnmodified ==
  (proxyResp # None /\ ~KeyAbsent /\ UpstreamSucceeded) =>
    /\ proxyResp.body = upstreamResp.body
    /\ proxyResp.status = 200

C10_Witness ==
  /\ proxyResp # None /\ ~KeyAbsent /\ UpstreamSucceeded
  /\ request.route = "quote" /\ "data" \in DOMAIN upstreamResp.body.v
  /\ proxyResp.body = upstreamResp.body

-----------------------------------------------------------------------------
(* Properties of the card *)

\* the component has rendered the props held in cardProps
Rendered == cardProps # None /\ view # None

\* the normal card is shown
NormalCard == Rendered /\ view.kind = "normal"

\* a prop of the rendered props
Prop(key) == Get(cardProps, key)

\* the value of a field after the two namings are resolved: the camelCase
\* prop unless it is undefined or null, the snake_case prop then
ResolvedField(camel, snake) ==
  IF Prop(camel) = Undefined \/ Prop(camel) = Null THEN Prop(snake)
  ELSE Prop(camel)

ResolvedPrice == ResolvedField("currentPrice", "current_price")
ResolvedPercentage ==
  ResolvedField("priceChangePercentage24h", "price_change_percentage_24h")

NonEmptyString(x) == IsString(x) /\ x.v # <<>>

\* the parts only the normal card has
NormalParts ==
  {"priceText", "changeText", "percentText", "arrow", "changeColor",
   "bgGradient", "borderColor", "marketCap", "volume"}

ErrorState == view.kind = "error" /\ DOMAIN view \cap NormalParts = {}

C13_SignStyling ==
  NormalCard =>
    IF ResolvedPercentage.v >= 0
    THEN /\ view.isPositive
         /\ view.arrow = "up"
         /\ view.changeColor = "#22c55e"
         /\ view.bgGradient = "from-green-50 to-emerald-50"
         /\ view.borderColor = "border-green-200"
    ELSE /\ ~view.isPositive
         /\ view.arrow = "down"
         /\ view.changeColor = "#ef4444"
         /\ view.bgGradient = "from-red-50 to-rose-50"
         /\ view.borderColor = "border-red-200"

C13_Witness ==
  /\ NormalCard /\ ResolvedPercentage = Num(0)
  /\ view.arrow = "up" /\ view.borderColor = "border-green-200"

\* the five numeric fields: camelCase prop, snake_case prop, field of the
\* card
NumericFields ==
  {<<"currentPrice", "current_price", "price">>,
   <<"priceChange24h", "price_change_24h", "priceChange">>,
   <<"priceChangePercentage24h", "price_change_percentage_24h",
     "priceChangePercentage">>,
   <<"marketCap", "market_cap", "marketCapValue">>,
   <<"volume24h", "volume_24h", "volumeValue">>}

\* a numeric prop is supplied when it holds a number
Supplied(x) == x.t = "number"

\* C14: for each of the five numeric fields the card uses the camelCase
\* value when both namings are supplied, and the one supplied value when
\* only one is.
C14_CamelCaseFirst ==
  NormalCard =>
    \A f \in NumericFields :
      IF Supplied(Prop(f[1])) THEN view[f[3]] = Prop(f[1])
      ELSE Supplied(Prop(f[2])) => view[f[3]] = Prop(f[2])

C14_Witness ==
  /\ NormalCard
  /\ Prop("marketCap") = Num(0) /\ Prop("market_cap") = Num(8)
  /\ view.marketCapValue = Num(0)
  /\ Prop("volume24h") = Undefined /\ view.volumeValue = Dec(1, 3)

\* the two formatted figures of the card: the value and its text
Figures ==
  {<<view.marketCapValue, view.marketCap>>, <<view.volumeValue, view.volume>>}

\* the power of ten the thresholds divide num by
Scale(num) ==
  IF AtLeastPow10(num, 12) THEN 12
  ELSE IF AtLeastPow10(num, 9) THEN 9
  ELSE IF AtLeastPow10(num, 6) THEN 6
  ELSE IF AtLeastPow10(num, 3) THEN 3
  ELSE 0

Suffix(k) ==
  IF k = 12 THEN <<"T">> ELSE IF k = 9 THEN <<"B">>
  ELSE IF k = 6 THEN <<"M">> ELSE IF k = 3 THEN <<"K">> ELSE <<>>

\* h hundredths written with two decimals
TwoDecimals(h) ==
  <<ToString(h \div 100), ".", ToString((h % 100) \div 10), ToString(h % 10)>>

\* h hundredths is a nearest two-decimal value of |num| / 10^k
NearestHundredths(h, num, k) ==
  LET m == Abs(num.v)
      shift == num.e - k + 2
  IN IF shift >= 0 THEN h = m * Pow10(shift)
     ELSE IF -shift > 9 THEN h = 0
     ELSE 2 * Abs(h * Pow10(-shift) - m) <= Pow10(-shift)

\* the hundredths next to |num| / 10^k
NearHundredths(num, k) ==
  LET m == Abs(num.v)
      shift == num.e - k + 2
  IN IF shift >= 0 THEN {m * Pow10(shift)}
     ELSE IF -shift > 9 THEN {0}
     ELSE {m \div Pow10(-shift), (m \div Pow10(-shift)) + 1}

\* text is num divided by its threshold, rounded to two decimals, after '$'
\* and before the suffix of the threshold
Abbreviated(num, text) ==
  \E h \in NearHundredths(num, Scale(num)) :
    /\ NearestHundredths(h, num, Scale(num))
    /\ text = <<"$">> \o (IF num.v < 0 THEN <<"-">> ELSE <<>>)
                \o TwoDecimals(h) \o Suffix(Scale(num))

\* C12: formatLargeNumber divides by 1e12, 1e9, 1e6 or 1e3 at the first
\* threshold the value reaches and appends T, B, M or K, prints the value
\* itself below 1000, rounds to two decimals and prefixes '$'; 1_500_000
\* gives '$1.50M' and 2_300_000_000_000 gives '$2.30T'.
C12_Thresholds ==
  NormalCard =>
    \A f \in Figures :
      f[1].t = "number" =>
        /\ Abbreviated(f[1], f[2])
        /\ f[1] = Dec(15, 5) => f[2] = <<"$", "1", ".", "5", "0", "M">>
        /\ f[1] = Dec(23, 11) => f[2] = <<"$", "2", ".", "3", "0", "T">>
        /\ f[1] = Num(9) => f[2] = <<"$", "9", ".", "0", "0">>

C12_Witness ==
  /\ NormalCard
  /\ view.marketCapValue = Dec(23, 11)
  /\ view.marketCap = <<"$", "2", ".", "3", "0", "T">>

\* C15: formatLargeNumber gives exactly 'N/A' for undefined, null and NaN,
\* and a text that starts with '$' for every number.
C15_NotAvailable ==
  NormalCard =>
    \A f \in Figures :
      IF f[1] = Undefined \/ f[1] = Null \/ f[1] = NaN
      THEN f[2] = <<"N/A">>
      ELSE f[2][1] = "$"

C15_Witness ==
  /\ NormalCard
  /\ view.marketCapValue = NaN /\ view.marketCap = <<"N/A">>
  /\ view.volume[1] = "$"

\* the number of digits after the decimal point
Decimals(text) == Len(text) - (CHOOSE i \in 1..Len(text) : text[i] = ".")

\* C16: the primary price is shown with exactly 2 decimals when the value
\* exceeds 1, and with at least 2 and at most 8 otherwise, a price of
\* exactly 1 included; no zero is shown past the second decimal.
C16_PriceDecimals ==
  NormalCard =>
    /\ IF GreaterThanOne(view.price)
       THEN Decimals(view.priceText) = 2
       ELSE Decimals(view.priceText) \in 2..8
    /\ Decimals(view.priceText) > 2 =>
         view.priceText[Len(view.priceText)] # "0"
    /\ view.price = Num(1) => view.priceText = <<"$", "1", ".", "0", "0">>
    /\ view.price = Dec(1234, -8) =>
         view.priceText =
           <<"$", "0", ".", "0", "0", "0", "0", "1", "2", "3", "4">>

C16_Witness ==
  /\ NormalCard
  /\ view.price = Dec(1234, -8)
  /\ Decimals(view.priceText) = 8

\* whole parts below 1000
BelowThousand == {ToString(n) : n \in 0..999}

\* a formatted figure of the card whose value is a number of zero or more
NonNegativeFigure(f) == f[1].t = "number" /\ f[1].v >= 0

\* C20 as stated: for a value of 1000 or more the number printed before K,
\* M or B is at least 1.00 and below 1000.00, and for a value from 0 to
\* below 1000 the number printed is below 1000.00.
C20_PrintedBelowThousand ==
  NormalCard =>
    \A f \in Figures :
      (NonNegativeFigure(f) /\ Scale(f[1]) < 12) =>
        /\ f[2][2] \in BelowThousand
        /\ Scale(f[1]) > 0 => f[2][2] # "0"

\* C20: for a value of 1000 or more the number printed before K, M or B is
\* at least 1.00 and at most 1000.00, and for a value from 0 to below 1000
\* the number printed is at most 1000.00; 1000.00 is printed when the
\* divided value rounds up to it.
C20_PrintedAtMostThousand ==
  NormalCard =>
    \A f \in Figures :
      (NonNegativeFigure(f) /\ Scale(f[1]) < 12) =>
        /\ \/ f[2][2] \in BelowThousand
           \/ f[2] = <<"$", "1000", ".", "0", "0">> \o Suffix(Scale(f[1]))
        /\ Scale(f[1]) > 0 => f[2][2] # "0"

C20_Witness ==
  /\ NormalCard
  /\ view.marketCapValue = Num(999999)
  /\ view.marketCap = <<"$", "1000", ".", "0", "0", "K">>

-----------------------------------------------------------------------------
(* Properties of the tool's result and of the lookup *)

\* getCryptoPrice has returned a record
ToolSucceeded == toolPc = "done" /\ toolOut.kind = "resolved"

\* C17: every record getCryptoPrice returns has a non-empty string symbol
\* and name and numbers in its five numeric fields, so it passes the guard
\* of CryptoCard and is rendered as the normal card, never the error state.
C17_ResultRendersNormal ==
  ToolSucceeded =>
    /\ NonEmptyString(toolOut.value.v.symbol)
    /\ NonEmptyString(toolOut.value.v.name)
    /\ \A k \in {"currentPrice", "priceChange24h", "priceChangePercentage24h",
                 "marketCap", "volume24h"} :
         toolOut.value.v[k].t = "number"
    /\ view # None => (cardProps = toolOut.value /\ view.kind = "normal")

C17_Witness ==
  /\ ToolSucceeded /\ view # None /\ view.kind = "normal"
  /\ Get(SourceEntry, "name") = Undefined
  /\ view.name = Str(ToUpperCase(toolArg.v))

\* C18: getCurrentCryptoInfo reads the status before the payload: on a
\* non-2xx answer it fails with 'API error: <status>' and not with the
\* error text of the proxy, and it fails with the payload's error text only
\* on a 2xx answer whose payload carries an error field.
C18_StatusBeforePayload ==
  InfoSettled =>
    /\ NonSuccessStatus =>
         /\ ~cryptoInfo.ok
         /\ cryptoInfo.message = <<"API error: ", ToString(proxyResp.status)>>
         /\ Get(Payload, "error") # Str(cryptoInfo.message)
    /\ (~cryptoInfo.ok /\ Get(Payload, "error") = Str(cryptoInfo.message)) =>
         (~NonSuccessStatus /\ CarriesErrorField)

C18_Witness ==
  /\ InfoSettled /\ proxyResp.status = 500
  /\ Truthy(Get(Payload, "error"))
  /\ toolOut = Rejected(<<"API error: ", "500">>)

\* the requested symbol in upper case
UpperSymbol == ToUpperCase(toolArg.v)

\* what the tool gives for the upper-cased symbol on the same answer
UpperOutcome ==
  ToolFinish(UpperSymbol, GetCurrentCryptoInfo(UpperSymbol, proxyResp))

\* two outcomes are the same record or failures of the same class
SameOutcome(a, b) ==
  /\ a.kind = b.kind
  /\ a.kind = "resolved" => a.value = b.value
  /\ a.kind = "rejected" => a.message[1] = b.message[1]

\* C19: the lookup is case-insensitive end to end: the proxy sends the
\* upper-cased symbol upstream, and on provider data keyed by upper-case
\* symbols getCryptoPrice gives for a symbol in any letter case the outcome
\* it gives for the upper-cased symbol: the same record, or a failure of
\* the same class.
C19_CaseInsensitive ==
  /\ (~MalformedArg /\ upstreamReq # None) => upstreamReq.symbol = UpperSymbol
  /\ (toolPc = "done" /\ ~MalformedArg /\ proxyResp # None) =>
       SameOutcome(toolOut, UpperOutcome)

C19_Witness ==
  /\ ToolSucceeded /\ toolArg.v # UpperSymbol
  /\ upstreamReq.symbol = UpperSymbol
  /\ toolOut = UpperOutcome

====
